---- MODULE Spec2Model ----
(***************************************************************************)
(* A model of the configs builder (package configsbuilder): the fluent     *)
(* builder with its eight enable-methods, Build with newConfigs,           *)
(* setupViper and setupObservability, and loadStructDefaults together with *)
(* the part of the viper store the builder relies on (SetDefault, the      *)
(* AutomaticEnv lookup, AllKeys/AllSettings and Unmarshal).                *)
(*                                                                         *)
(* Two specifications share the variables:                                 *)
(*   Spec        the builder: enable-methods and Build, step by step;      *)
(*   InjectSpec  loadStructDefaults and Unmarshal applied to stores and    *)
(*               schemas drawn from bounded sets.                          *)
(*                                                                         *)
(* viper, mapstructure, zap and the logging and tracing packages are       *)
(* libraries the builder calls: the store operators below follow what      *)
(* viper does (Get resolves environment, then file, then default;          *)
(* Unmarshal decodes AllSettings, the keys of the file and of the          *)
(* defaults; SetDefault assigns), and a call of a method of a nil          *)
(* *zap.Logger dereferences nil. What an Install returns is an input.      *)
(*                                                                         *)
(* Keys are viper keys, which viper treats case-insensitively (SetDefault  *)
(* lower-cases, the environment lookup upper-cases): a key of the model    *)
(* stands for all spellings of one name.                                   *)
(***************************************************************************)
EXTENDS Naturals, Sequences, FiniteSets, TLC

VARIABLES
    flags,      \* configsBuilder.http, otlp, postgres, ... (one flag per enable-method)
    Err,        \* configsBuilder.Err
    ret,        \* what the last enable-method returned
    called,     \* history: the enable-methods called so far
    pc,         \* the position inside Build ("idle" outside of it)
    idx,        \* index of the optional block Build is at (0 outside the blocks)
    store,      \* the *viper.Viper (cfgs.Custom in Build)
    cfgs,       \* the *configs.Configs under construction
    result,     \* what Build returned (or that it panicked)
    trace,      \* history: what Build did, in order
    structPtr,  \* InjectSpec: the value handed to loadStructDefaults
    ipc,        \* InjectSpec: the position of the experiment
    pre,        \* InjectSpec: the store before the first injection
    once,       \* InjectSpec: the store after the first injection
    out         \* InjectSpec: the result of Unmarshal

vars == <<flags, Err, ret, called, pc, idx, store, cfgs, result, trace,
          structPtr, ipc, pre, once, out>>

buildVars == <<flags, Err, ret, called, pc, idx, cfgs, result, trace>>

injectVars == <<structPtr, ipc, pre, once, out>>

-----------------------------------------------------------------------------
(* Bounds of the model. *)

\* the number of fields of a schema drawn in InjectSpec
MaxFields == 2

\* the number of entries (file plus live) of the environment a Build runs in
MaxEnvEntries == 1

-----------------------------------------------------------------------------
(* Optional values: Go's (value, ok) pairs and map lookups. *)

None == [ok |-> FALSE, val |-> ""]

Some(s) == [ok |-> TRUE, val |-> s]

OptionalSwapped == <<"Postgres", "HTTP", "Identity", "MQTT", "RabbitMQ", "AWS", "DynamoDB">>

\* the optional blocks of Build, in the order of its if-blocks
Optional == <<"HTTP", "Postgres", "Identity", "MQTT", "RabbitMQ", "AWS", "DynamoDB">>

OptionalSet == {Optional[n] : n \in 1..Len(Optional)}

Mandatory == {"App", "OTLP"}

Schemas == Mandatory \cup OptionalSet

\* the enable-methods of the builder
Methods == OptionalSet \cup {"Otlp"}

\* the keys of InjectSpec; only EnvKeys occur in its environment
InjectKeys == {"K1", "K2"}

EnvKeys == {"K1"}

Keys == InjectKeys \cup Schemas

EmptyLayer == [k \in Keys |-> None]

-----------------------------------------------------------------------------
(* The viper store: the config file layer, the live environment           *)
(* (AutomaticEnv) and the defaults layer.                                  *)

\* viper.New() followed by SetConfigFile, AutomaticEnv and a successful ReadInConfig
NewStore(f, e) == [config |-> f, env |-> e, defaults |-> EmptyLayer]

\* viper's getEnv: an empty variable counts as unset (AllowEmptyEnv is off)
getEnv(v, k) == IF v.env[k].ok /\ v.env[k].val # "" THEN v.env[k] ELSE None

\* viper's find, as Get uses it: environment, then config file, then defaults
find(v, k) ==
    IF getEnv(v, k).ok THEN getEnv(v, k)
    ELSE IF v.config[k].ok THEN v.config[k]
    ELSE v.defaults[k]

\* viper's AllKeys: the keys of the config file and of the defaults; a key that
\* only the environment holds is not among them
AllKeys(v) == {k \in Keys : v.config[k].ok \/ v.defaults[k].ok}

\* viper's AllSettings: Get of every key of AllKeys
AllSettings(v) == [k \in AllKeys(v) |-> find(v, k).val]

SetDefaultIfAbsent(v, k, d) ==
    IF v.defaults[k].ok THEN v ELSE [v EXCEPT !.defaults[k] = Some(d)]

\* viper's SetDefault: assigns the key's entry of the defaults layer
SetDefault(v, k, d) == [v EXCEPT !.defaults[k] = Some(d)]

-----------------------------------------------------------------------------
(* Schemas and the values handed to loadStructDefaults.                    *)
(* A field carries its two struct tags as Tag.Lookup returns them and its  *)
(* type; a value is a pointer or not, and has the kind of what it is (or   *)
(* points to): "struct", "int", or "invalid" for a nil pointer.            *)

Field(key, def, type) == [mapstructure |-> key, default |-> def, type |-> type]

PtrTo(kind, fields) == [ptr |-> TRUE, kind |-> kind, fields |-> fields]

ByValue(kind, fields) == [ptr |-> FALSE, kind |-> kind, fields |-> fields]

\* reflect.Value.Kind of the value itself
Kind(x) == IF x.ptr THEN "ptr" ELSE x.kind

\* reflect.Value.Elem of a pointer
Elem(x) == ByValue(x.kind, x.fields)

\* one iteration of the loop of loadStructDefaults: the two tag lookups, the two
\* continue statements and the SetDefault
loadFieldNoEmptyCheck(v, field) ==
    IF ~field.default.ok
    THEN v
    ELSE IF ~field.mapstructure.ok \/ field.mapstructure.val = ""
    THEN v
    ELSE SetDefault(v, field.mapstructure.val, field.default.val)

loadField(v, field) ==
    IF ~field.default.ok \/ field.default.val = ""
    THEN v
    ELSE IF ~field.mapstructure.ok \/ field.mapstructure.val = ""
    THEN v
    ELSE SetDefault(v, field.mapstructure.val, field.default.val)

\* the loop of loadStructDefaults over the fields, in declaration order, from n on
RECURSIVE loadFields(_, _, _)
loadFields(v, fields, n) ==
    IF n > Len(fields) THEN v
    ELSE loadFields(loadField(v, fields[n]), fields, n + 1)

\* loadStructDefaults(v, structPtr): the store afterwards
loadStructDefaultsPointerOnly(v, x) ==
    IF Kind(x) # "ptr" THEN v
    ELSE IF Kind(Elem(x)) # "struct" THEN v
    ELSE loadFields(v, Elem(x).fields, 1)

loadStructDefaults(v, x) ==
    LET val == IF Kind(x) = "ptr" THEN Elem(x) ELSE x
    IN  IF Kind(val) # "struct" THEN v
        ELSE loadFields(v, val.fields, 1)

-----------------------------------------------------------------------------
(* Unmarshal: the decoding of AllSettings into a schema instance.          *)

\* the strings strconv.ParseInt accepts, among the values of the model
Numeric == {"1", "8", "9"}

Atoi(s) == CASE s = "1" -> 1 [] s = "8" -> 8 [] s = "9" -> 9 [] OTHER -> 0

\* the zero value of a field of a fresh instance
Zero(type) == IF type = "int" THEN 0 ELSE ""

\* mapstructure's weakly typed decoding of a string into a field: a string field
\* takes it as it is; an int field parses it, the empty string giving 0
decode(s, type) ==
    IF type = "string" THEN [ok |-> TRUE, val |-> s]
    ELSE IF s = "" THEN [ok |-> TRUE, val |-> 0]
    ELSE IF s \in Numeric THEN [ok |-> TRUE, val |-> Atoi(s)]
    ELSE [ok |-> FALSE, val |-> 0]

\* the decoding of one field: a field is read from the settings under its mapping
\* key; a field with no mapping key is read under its own name, which is taken
\* not to be a key of the store, and a key the settings lack leaves the zero value
decodeField(settings, field) ==
    IF field.mapstructure.ok /\ field.mapstructure.val \in DOMAIN settings
    THEN decode(settings[field.mapstructure.val], field.type)
    ELSE [ok |-> TRUE, val |-> Zero(field.type)]

\* v.Unmarshal(structPtr) for a pointer to a struct: err, and the instance (a
\* field whose decoding fails keeps its zero value)
Unmarshal(v, x) ==
    LET settings == AllSettings(v)
        dec == [n \in 1..Len(x.fields) |-> decodeField(settings, x.fields[n])]
    IN  [err  |-> \E n \in 1..Len(x.fields) : ~dec[n].ok,
         inst |-> [n \in 1..Len(x.fields) |-> dec[n].val]]

-----------------------------------------------------------------------------
(* InjectSpec: loadStructDefaults and Unmarshal on drawn stores and values. *)

\* what the environment file, the live environment and an earlier injection hold
FileVals == {"f"}

LiveVals == {"", "l"}

EarlierDefaults == {"p"}

\* the tags a drawn field can carry
KeyTags == {None, Some(""), Some("K1"), Some("K2")}

DefaultTags == {None, Some(""), Some("d"), Some("e")}

Layers(vals) ==
    {[k \in Keys |-> IF k \in EnvKeys THEN c ELSE None] : c \in {None} \cup {Some(s) : s \in vals}}

InjectStores ==
    {[config |-> f, env |-> e, defaults |-> d] :
        f \in Layers(FileVals), e \in Layers(LiveVals), d \in Layers(EarlierDefaults)}

FieldShapes == {Field(k, d, "string") : k \in KeyTags, d \in DefaultTags}

RECURSIVE SeqsUpTo(_, _)
SeqsUpTo(S, n) ==
    IF n = 0 THEN {<<>>}
    ELSE LET shorter == SeqsUpTo(S, n - 1)
         IN  shorter \cup {Append(q, e) : q \in {r \in shorter : Len(r) = n - 1}, e \in S}

StructShapes == SeqsUpTo(FieldShapes, MaxFields)

\* pointers to structs, structs by value, a pointer to an int, a nil pointer, an int
Inputs ==
    {PtrTo("struct", fs) : fs \in StructShapes}
    \cup {ByValue("struct", fs) : fs \in StructShapes}
    \cup {PtrTo("int", <<>>), PtrTo("invalid", <<>>), ByValue("int", <<>>)}

NoOut == [err |-> FALSE, inst |-> <<>>]

IsStructPtr(x) == x.ptr /\ x.kind = "struct"

idleInject == /\ structPtr = PtrTo("invalid", <<>>)
              /\ ipc = "none"
              /\ pre = NewStore(EmptyLayer, EmptyLayer)
              /\ once = NewStore(EmptyLayer, EmptyLayer)
              /\ out = NoOut

-----------------------------------------------------------------------------
(* The builder and Build.                                                  *)

NilPtr == [isNil |-> TRUE, val |-> <<>>]

Ptr(inst) == [isNil |-> FALSE, val |-> inst]

\* the schema of each block of Build: one int field under the block's own key,
\* with a declared default
SchemaOf(d) == PtrTo("struct", <<Field(Some(d), Some("1"), "int")>>)

\* the environments a Build can run in: an environment file and a live
\* environment with at most MaxEnvEntries entries between them; a file entry is
\* not a number, a live entry is one
BuildFileVals == {"x"}

BuildLiveVals == {"9"}

Entries(layer) == {k \in Keys : layer[k].ok}

RECURSIVE LayersOfAtMost(_, _)
LayersOfAtMost(vals, n) ==
    IF n = 0 THEN {EmptyLayer}
    ELSE LET fewer == LayersOfAtMost(vals, n - 1)
         IN  fewer \cup {[l EXCEPT ![k] = Some(s)] : l \in fewer, k \in Schemas, s \in vals}

BuildEnvs ==
    {fe \in LayersOfAtMost(BuildFileVals, MaxEnvEntries)
            \X LayersOfAtMost(BuildLiveVals, MaxEnvEntries) :
        Cardinality(Entries(fe[1])) + Cardinality(Entries(fe[2])) <= MaxEnvEntries}

\* what an Install of the logging and tracing packages can return: no error and
\* a logger, or an error with or without a usable logger
InstallOutcomes ==
    {[err |-> FALSE, handle |-> TRUE], [err |-> TRUE, handle |-> TRUE],
     [err |-> TRUE, handle |-> FALSE]}

\* &configs.Configs{AppConfigs, OTLPConfigs, Custom} of newConfigs, before the
\* two mandatory schemas are in it
NilCfgs ==
    [AppConfigs |-> NilPtr, OTLPConfigs |-> NilPtr, Custom |-> FALSE, Logger |-> "nil",
     optional |-> [d \in OptionalSet |-> NilPtr]]

NoResult == [kind |-> "none", bundle |-> NilCfgs, isNil |-> TRUE, err |-> "nil"]

\* return nil, err
ReturnErr(e) == [kind |-> "returned", bundle |-> NilCfgs, isNil |-> TRUE, err |-> e]

\* return cfgs, nil
ReturnCfgs(c) == [kind |-> "returned", bundle |-> c, isNil |-> FALSE, err |-> "nil"]

\* a nil pointer dereference
Panic == [kind |-> "panic", bundle |-> NilCfgs, isNil |-> TRUE, err |-> "nil"]

Init ==
    /\ flags = [m \in Methods |-> FALSE]
    /\ Err = "nil"
    /\ ret = "none"
    /\ called = {}
    /\ pc = "idle"
    /\ idx = 0
    /\ store = NewStore(EmptyLayer, EmptyLayer)
    /\ cfgs = NilCfgs
    /\ result = NoResult
    /\ trace = <<>>
    /\ idleInject

EnableCopyPaste(m) ==
    /\ pc = "idle"
    /\ flags' = [flags EXCEPT ![IF m = "Postgres" THEN "HTTP" ELSE m] = TRUE]
    /\ ret' = "b"
    /\ called' = called \cup {m}
    /\ UNCHANGED <<Err, pc, idx, store, cfgs, result, trace>>
    /\ UNCHANGED injectVars

\* HTTP(), Otlp(), Postgres(), Identity(), MQTT(), RabbitMQ(), AWS(), DynamoDB()
Enable(m) ==
    /\ pc = "idle"
    /\ flags' = [flags EXCEPT ![m] = TRUE]
    /\ ret' = "b"
    /\ called' = called \cup {m}
    /\ UNCHANGED <<Err, pc, idx, store, cfgs, result, trace>>
    /\ UNCHANGED injectVars

\* Build calls newConfigs, which calls setupViper: the store is made from the
\* environment file and the live environment, or ReadInConfig fails
setupViper ==
    /\ pc = "idle"
    /\ \E fe \in BuildEnvs, readable \in BOOLEAN :
          IF readable
          THEN /\ store' = NewStore(fe[1], fe[2])
               /\ pc' = "appConfigs"
               /\ result' = result
          ELSE /\ store' = store
               /\ pc' = "done"
               /\ result' = ReturnErr("ReadInConfig")
    /\ trace' = <<<<"ReadInConfig", "">>>>
    /\ UNCHANGED <<flags, Err, ret, called, idx, cfgs>>
    /\ UNCHANGED injectVars

\* the events of instantiating a schema, injecting its defaults and decoding it
Load(d) == <<<<"new", d>>, <<"inject", d>>, <<"unmarshal", d>>>>

\* newConfigs: appConfigs
loadAppConfigs ==
    /\ pc = "appConfigs"
    /\ LET v == loadStructDefaults(store, SchemaOf("App"))
           u == Unmarshal(v, SchemaOf("App"))
       IN  /\ store' = v
           /\ trace' = trace \o Load("App")
           /\ IF u.err
              THEN /\ result' = ReturnErr("App")
                   /\ pc' = "done"
                   /\ cfgs' = cfgs
              ELSE /\ result' = result
                   /\ pc' = "otlpConfigs"
                   /\ cfgs' = [cfgs EXCEPT !.AppConfigs = Ptr(u.inst)]
    /\ UNCHANGED <<flags, Err, ret, called, idx>>
    /\ UNCHANGED injectVars

\* newConfigs: otlpConfigs, and the Configs that holds both and the store
loadOTLPConfigs ==
    /\ pc = "otlpConfigs"
    /\ LET v == loadStructDefaults(store, SchemaOf("OTLP"))
           u == Unmarshal(v, SchemaOf("OTLP"))
       IN  /\ store' = v
           /\ trace' = trace \o Load("OTLP")
           /\ IF u.err
              THEN /\ result' = ReturnErr("OTLP")
                   /\ pc' = "done"
                   /\ cfgs' = NilCfgs
              ELSE /\ result' = result
                   /\ pc' = "setupObservability"
                   /\ cfgs' = [cfgs EXCEPT !.OTLPConfigs = Ptr(u.inst), !.Custom = TRUE]
    /\ UNCHANGED <<flags, Err, ret, called, idx>>
    /\ UNCHANGED injectVars

\* cfgs.Logger.Error(...): a nil *zap.Logger is dereferenced
LogPanics(c) == c.Logger = "nil"

\* setupObservability(cfgs) with the outcomes lg and tr of the logger and tracer
\* installs: the cfgs afterwards, the error returned, whether it panicked, and
\* what it did
setupObservability(otlp, c, lg, tr) ==
    LET variant == IF otlp THEN "otlp" ELSE "noop"
        c1 == [c EXCEPT !.Logger = IF lg.handle THEN variant ELSE "nil"]
        installed == <<<<"install", variant>>>>
    IN  IF lg.err
        THEN [cfgs |-> c1, err |-> variant, panic |-> LogPanics(c1),
              did |-> installed \o <<<<"log", variant>>>>]
        ELSE IF otlp
        THEN IF tr.err
             THEN [cfgs |-> c1, err |-> "tracer", panic |-> LogPanics(c1),
                   did |-> installed \o <<<<"install", "tracer">>, <<"log", "tracer">>>>]
             ELSE [cfgs |-> c1, err |-> "nil", panic |-> FALSE,
                   did |-> installed \o <<<<"install", "tracer">>>>]
        ELSE [cfgs |-> c1, err |-> "nil", panic |-> FALSE, did |-> installed]

\* Build: if err := b.setupObservability(cfgs); err != nil { return nil, err }
installObservability ==
    /\ pc = "setupObservability"
    /\ \E lg \in InstallOutcomes, tr \in InstallOutcomes :
          LET r == setupObservability(flags["Otlp"], cfgs, lg, tr)
          IN  /\ cfgs' = r.cfgs
              /\ trace' = trace \o r.did
              /\ IF r.panic
                 THEN /\ result' = Panic
                      /\ pc' = "done"
                      /\ idx' = idx
                 ELSE IF r.err # "nil"
                 THEN /\ result' = ReturnErr(r.err)
                      /\ pc' = "done"
                      /\ idx' = idx
                 ELSE /\ result' = result
                      /\ pc' = "optional"
                      /\ idx' = 1
    /\ UNCHANGED <<flags, Err, ret, called, store>>
    /\ UNCHANGED injectVars

blockInstantiatesFirst(d, enabled, c, v) ==
    LET v1 == loadStructDefaults(v, SchemaOf(d))
        u == Unmarshal(v1, SchemaOf(d))
        c1 == [c EXCEPT !.optional[d] = Ptr(u.inst)]
    IN  IF ~enabled
        THEN [cfgs |-> [c EXCEPT !.optional[d] = Ptr(<<0>>)], store |-> v, err |-> "nil",
              panic |-> FALSE, did |-> <<>>]
        ELSE IF u.err
        THEN [cfgs |-> c1, store |-> v1, err |-> d, panic |-> LogPanics(c1),
              did |-> Load(d) \o <<<<"log", d>>>>]
        ELSE [cfgs |-> c1, store |-> v1, err |-> "nil", panic |-> FALSE, did |-> Load(d)]

blockNoReturn(d, enabled, c, v) ==
    IF ~enabled
    THEN [cfgs |-> c, store |-> v, err |-> "nil", panic |-> FALSE, did |-> <<>>]
    ELSE LET v1 == loadStructDefaults(v, SchemaOf(d))
             u == Unmarshal(v1, SchemaOf(d))
             c1 == [c EXCEPT !.optional[d] = Ptr(u.inst)]
         IN  IF u.err
             THEN [cfgs |-> c1, store |-> v1, err |-> "nil", panic |-> LogPanics(c1),
                   did |-> Load(d) \o <<<<"log", d>>>>]
             ELSE [cfgs |-> c1, store |-> v1, err |-> "nil", panic |-> FALSE,
                   did |-> Load(d)]

\* the if-block of Build for the optional schema d: nothing when its flag is not
\* set; otherwise the instance, its defaults, Unmarshal, and on an error the log
\* and return nil, err
block(d, enabled, c, v) ==
    IF ~enabled
    THEN [cfgs |-> c, store |-> v, err |-> "nil", panic |-> FALSE, did |-> <<>>]
    ELSE LET v1 == loadStructDefaults(v, SchemaOf(d))
             u == Unmarshal(v1, SchemaOf(d))
             c1 == [c EXCEPT !.optional[d] = Ptr(u.inst)]
         IN  IF u.err
             THEN [cfgs |-> c1, store |-> v1, err |-> d, panic |-> LogPanics(c1),
                   did |-> Load(d) \o <<<<"log", d>>>>]
             ELSE [cfgs |-> c1, store |-> v1, err |-> "nil", panic |-> FALSE,
                   did |-> Load(d)]

\* Build at the if-block of Optional[idx]
optionalBlock ==
    /\ pc = "optional"
    /\ LET r == block(Optional[idx], flags[Optional[idx]], cfgs, store)
       IN  /\ cfgs' = r.cfgs
           /\ store' = r.store
           /\ trace' = trace \o r.did
           /\ IF r.panic
              THEN /\ result' = Panic
                   /\ pc' = "done"
                   /\ idx' = idx
              ELSE IF r.err # "nil"
              THEN /\ result' = ReturnErr(r.err)
                   /\ pc' = "done"
                   /\ idx' = idx
              ELSE /\ result' = result
                   /\ pc' = IF idx = Len(Optional) THEN "return" ELSE "optional"
                   /\ idx' = IF idx = Len(Optional) THEN idx ELSE idx + 1
    /\ UNCHANGED <<flags, Err, ret, called>>
    /\ UNCHANGED injectVars

\* Build: return cfgs, nil
returnCfgs ==
    /\ pc = "return"
    /\ result' = ReturnCfgs(cfgs)
    /\ pc' = "done"
    /\ UNCHANGED <<flags, Err, ret, called, idx, store, cfgs, trace>>
    /\ UNCHANGED injectVars

\* Build has returned (or panicked): its locals are gone, the builder stays as
\* it is and can be used again
afterBuild ==
    /\ pc = "done"
    /\ pc' = "idle"
    /\ idx' = 0
    /\ store' = NewStore(EmptyLayer, EmptyLayer)
    /\ cfgs' = NilCfgs
    /\ result' = NoResult
    /\ trace' = <<>>
    /\ UNCHANGED <<flags, Err, ret, called>>
    /\ UNCHANGED injectVars

Next ==
    \/ \E m \in Methods : Enable(m)
    \/ setupViper
    \/ loadAppConfigs
    \/ loadOTLPConfigs
    \/ installObservability
    \/ optionalBlock
    \/ returnCfgs
    \/ afterBuild

Spec == Init /\ [][Next]_vars

-----------------------------------------------------------------------------
(* InjectSpec.                                                             *)

idleBuild ==
    /\ flags = [m \in Methods |-> FALSE]
    /\ Err = "nil"
    /\ ret = "none"
    /\ called = {}
    /\ pc = "idle"
    /\ idx = 0
    /\ cfgs = NilCfgs
    /\ result = NoResult
    /\ trace = <<>>

InitInject ==
    /\ idleBuild
    /\ store \in InjectStores
    /\ structPtr \in Inputs
    /\ ipc = "start"
    /\ pre = store
    /\ once = store
    /\ out = NoOut

\* loadStructDefaults(v, structPtr)
Inject ==
    /\ ipc = "start"
    /\ store' = loadStructDefaults(store, structPtr)
    /\ once' = store'
    /\ ipc' = "once"
    /\ UNCHANGED <<structPtr, pre, out>>
    /\ UNCHANGED buildVars

\* loadStructDefaults(v, structPtr) a second time, on the same pair
InjectAgain ==
    /\ ipc = "once"
    /\ store' = loadStructDefaults(store, structPtr)
    /\ ipc' = "twice"
    /\ UNCHANGED <<structPtr, pre, once, out>>
    /\ UNCHANGED buildVars

\* v.Unmarshal(structPtr) after the injection, as newConfigs and Build call it
Decode ==
    /\ ipc \in {"once", "twice"}
    /\ IsStructPtr(structPtr)
    /\ out' = Unmarshal(store, structPtr)
    /\ ipc' = "decoded"
    /\ UNCHANGED <<store, structPtr, pre, once>>
    /\ UNCHANGED buildVars

NextInject == Inject \/ InjectAgain \/ Decode

InjectSpec == InitInject /\ [][NextInject]_vars

-----------------------------------------------------------------------------
(* Properties of Build (Spec).                                             *)

Has(e) == \E p \in 1..Len(trace) : trace[p] = e

Before(e, q) == \E p \in 1..(q - 1) : trace[p] = e

\* the unmarshalling of an optional schema failed (Build logs exactly then)
Failed(d) == Has(<<"log", d>>)

\* an install of setupObservability failed
InstallFailed(x) == x \in {"otlp", "noop", "tracer"} /\ Has(<<"log", x>>)

Populated(bundle) == {d \in OptionalSet : ~bundle.optional[d].isNil}

Enabled == {d \in OptionalSet : flags[d]}

\* C1: every call to Build ends in (non-nil bundle, nil error) or in (nil
\* bundle, non-nil error), and a failing step makes it return nil and that
\* step's error.
C1_TwoOutcomes ==
    pc = "done" =>
        /\ result.kind = "returned"
        /\ result.isNil <=> result.err # "nil"
        /\ result.isNil => result.bundle = NilCfgs
        /\ \A x \in {"otlp", "noop", "tracer"} \cup OptionalSet :
              Has(<<"log", x>>) => result = ReturnErr(x)

\* C2: a successful Build returns a bundle in which exactly the fields of the
\* enabled optional domains are populated, and those of the others are nil.
C2_ExactlyEnabled ==
    (result.kind = "returned" /\ ~result.isNil) => Populated(result.bundle) = Enabled

C2_Witness ==
    /\ result.kind = "returned"
    /\ ~result.isNil
    /\ Enabled = {"Postgres", "AWS"}
    /\ Populated(result.bundle) = {"Postgres", "AWS"}

\* the processing order the claims state
ClaimedOrder == <<"HTTP", "Postgres", "Identity", "MQTT", "RabbitMQ", "AWS", "DynamoDB">>

PlaceOf(d) == CHOOSE n \in 1..Len(ClaimedOrder) : ClaimedOrder[n] = d

Touched(d) ==
    \/ \E p \in 1..Len(trace) : trace[p][2] = d
    \/ store.defaults[d].ok
    \/ ~cfgs.optional[d].isNil

\* C3: when the deserialization of an enabled domain D fails, no domain after D
\* in the fixed order is instantiated, has its defaults injected or is
\* deserialized, and Build returns a nil bundle (with D's error).
C3_ShortCircuit ==
    \A d \in OptionalSet :
        Failed(d) =>
            /\ \A e \in OptionalSet : PlaceOf(e) > PlaceOf(d) => ~Touched(e)
            /\ pc = "done"
            /\ result = ReturnErr(d)

C3_Witness ==
    /\ Failed("Postgres")
    /\ flags["HTTP"] /\ flags["Identity"] /\ flags["DynamoDB"]
    /\ Touched("HTTP")
    /\ result.isNil /\ result.kind = "returned"

\* the place of an event in the order the claim states
OpRank(op) == CASE op = "new" -> 0 [] op = "inject" -> 1 [] op = "unmarshal" -> 2 [] OTHER -> 3

Rank(e) ==
    CASE e[1] = "ReadInConfig" -> 0
      [] e[2] = "App" -> 10 + OpRank(e[1])
      [] e[2] = "OTLP" -> 20 + OpRank(e[1])
      [] e = <<"install", "otlp">> \/ e = <<"install", "noop">> -> 30
      [] e = <<"log", "otlp">> \/ e = <<"log", "noop">> -> 31
      [] e = <<"install", "tracer">> -> 32
      [] e = <<"log", "tracer">> -> 33
      [] OTHER -> 40 + (10 * PlaceOf(e[2])) + OpRank(e[1])

LoggerInstalled(q) == Before(<<"install", "otlp">>, q) \/ Before(<<"install", "noop">>, q)

\* C4: the base and the observability schema are loaded and the logger is
\* installed before any optional domain is touched; the enabled optional
\* domains are processed in the order HTTP, Postgres, Identity, MQTT, RabbitMQ,
\* AWS, DynamoDB, whatever the order of the enable calls; Otlp is handled in the
\* observability step only and is no domain of that sequence.
C4_FixedOrder ==
    /\ \A p \in 1..Len(trace) : p < Len(trace) => Rank(trace[p]) < Rank(trace[p + 1])
    /\ \A q \in 1..Len(trace) :
          trace[q][2] \in OptionalSet =>
              /\ Before(<<"unmarshal", "App">>, q)
              /\ Before(<<"unmarshal", "OTLP">>, q)
              /\ LoggerInstalled(q)
              /\ cfgs.Logger # "nil"
              /\ flags[trace[q][2]]
    /\ \A q \in 1..Len(trace) :
          trace[q][1] \in {"new", "inject", "unmarshal"} => trace[q][2] \in Schemas
    /\ \A d \in OptionalSet : store.defaults[d].ok => Has(<<"inject", d>>)

C4_Witness ==
    /\ called = {"DynamoDB", "HTTP", "Otlp", "MQTT"}
    /\ result.kind = "returned" /\ ~result.isNil
    /\ \E p, q, r \in 1..Len(trace) :
          /\ p < q /\ q < r
          /\ trace[p] = <<"unmarshal", "HTTP">>
          /\ trace[q] = <<"unmarshal", "MQTT">>
          /\ trace[r] = <<"unmarshal", "DynamoDB">>

\* C6: a failing install of the telemetry-backed logger, of the tracer or of the
\* no-op logger never makes Build panic, also when the failing logger install
\* returns no usable logger: Build logs it and returns that error and a nil bundle.
C6_InstallFailureNoPanic ==
    /\ result.kind # "panic"
    /\ \A x \in {"otlp", "noop", "tracer"} :
          (InstallFailed(x) /\ pc = "done") => result = ReturnErr(x)

LoggerInstalls == {p \in 1..Len(trace) : trace[p] \in {<<"install", "otlp">>, <<"install", "noop">>}}

\* C7: with the Otlp flag the telemetry-backed logger is installed and then the
\* tracer, and a failure of either aborts Build with that error; without it only
\* the no-op logger is installed, and no tracer. One logger variant is installed
\* per Build, the tracer is never installed after a failed logger install, and
\* the logger of a returned bundle is the installed one.
C7_ObservabilitySelection ==
    /\ Cardinality(LoggerInstalls) <= 1
    /\ Has(<<"install", "otlp">>) => flags["Otlp"]
    /\ Has(<<"install", "noop">>) => ~flags["Otlp"]
    /\ (pc \in {"optional", "return"} \/ (result.kind = "returned" /\ ~result.isNil))
          => Cardinality(LoggerInstalls) = 1
    /\ Has(<<"install", "tracer">>) =>
          /\ flags["Otlp"]
          /\ \E q \in 1..Len(trace) :
                trace[q] = <<"install", "tracer">> /\ Before(<<"install", "otlp">>, q)
          /\ ~Has(<<"log", "otlp">>)
    /\ (Has(<<"install", "otlp">>) /\ ~Has(<<"log", "otlp">>)) => Has(<<"install", "tracer">>)
    /\ \A x \in {"otlp", "noop", "tracer"} :
          (InstallFailed(x) /\ pc = "done") => result = ReturnErr(x)
    /\ (result.kind = "returned" /\ ~result.isNil) =>
          result.bundle.Logger = (IF flags["Otlp"] THEN "otlp" ELSE "noop")

\* C8: each enable-method sets its own flag and nothing else, cannot fail and
\* returns the builder; whatever the sequence of enable and Build calls, a flag
\* is true exactly when its enable-method has been called (all flags start
\* false), and the error slot stays as it was.
C8_FlagsMonotonic ==
    /\ \A m \in Methods : flags[m] <=> m \in called
    /\ Err = "nil"
    /\ ret = (IF called = {} THEN "none" ELSE "b")

C8_Witness ==
    /\ pc = "done"
    /\ result.kind = "returned"
    /\ called = {"MQTT", "Otlp"}
    /\ flags["MQTT"] /\ flags["Otlp"] /\ ~flags["HTTP"] /\ ~flags["AWS"]

-----------------------------------------------------------------------------
(* Properties of loadStructDefaults and Unmarshal (InjectSpec).            *)

Fields == IF structPtr.kind = "struct" THEN structPtr.fields ELSE <<>>

HasKey(field) == field.mapstructure.ok /\ field.mapstructure.val # ""

HasDefault(field) == field.default.ok /\ field.default.val # ""

\* the fields that declare both a non-empty mapping key and a non-empty default
Declaring(k) == {n \in 1..Len(Fields) : HasKey(Fields[n]) /\ HasDefault(Fields[n])
                                         /\ Fields[n].mapstructure.val = k}

Last(S) == CHOOSE n \in S : \A m \in S : m <= n

\* C5: for every mapping key of a processed schema, deserialization after the
\* injection yields the live value when one is set, otherwise the file value
\* when the file has one, otherwise the declared default. (Stated for the cases
\* the claim leaves no doubt about: a non-empty live value; a file value with no
\* live variable; the default of the only field that declares the key.)
C5_ValuePrecedence ==
    ipc = "decoded" =>
        \A n \in 1..Len(Fields) :
            HasKey(Fields[n]) =>
                LET k == Fields[n].mapstructure.val
                IN  /\ (store.env[k].ok /\ store.env[k].val # "") =>
                            out.inst[n] = store.env[k].val
                    /\ (~store.env[k].ok /\ store.config[k].ok) =>
                            out.inst[n] = store.config[k].val
                    /\ (~store.env[k].ok /\ ~store.config[k].ok /\ Declaring(k) = {n}) =>
                            out.inst[n] = Fields[n].default.val

\* C9 as stated: injecting twice leaves the registered defaults and the resolved
\* values as injecting once does, registration being set-if-absent (a default
\* that is registered is not replaced, so the first registration stands).
C9_SetIfAbsent ==
    /\ ipc = "twice" => (store = once /\ \A k \in Keys : find(store, k) = find(once, k))
    /\ ipc \in {"once", "twice"} =>
          \A k \in Keys :
              /\ pre.defaults[k].ok => store.defaults[k] = pre.defaults[k]
              /\ (~pre.defaults[k].ok /\ Declaring(k) # {}) =>
                    store.defaults[k] = Fields[CHOOSE n \in Declaring(k) :
                                                  \A m \in Declaring(k) : n <= m].default

\* C9, amended: injecting twice leaves the registered defaults and the resolved
\* values as injecting once does; a registration assigns the key's default and
\* replaces the one registered before (the last declaring field stands), and
\* touches neither the file nor the live values.
C9_Idempotent ==
    /\ ipc = "twice" => (store = once /\ \A k \in Keys : find(store, k) = find(once, k))
    /\ ipc \in {"once", "twice"} =>
          /\ store.config = pre.config
          /\ store.env = pre.env
          /\ \A k \in Keys :
                Declaring(k) # {} => store.defaults[k] = Fields[Last(Declaring(k))].default

C9_Witness ==
    /\ ipc = "twice"
    /\ pre.defaults["K1"] = Some("p")
    /\ Len(Fields) = 2
    /\ Declaring("K1") = {1, 2}
    /\ Fields[1].default # Fields[2].default
    /\ store.defaults["K1"] = Fields[2].default
    /\ store = once

\* C10: a (mapping key, default) pair is registered for a field exactly when
\* the field declares both a non-empty mapping key and a non-empty default; a
\* field lacking either registers nothing, no other key is registered, and the
\* schema instance is not changed.
C10_RegistersIffBoth ==
    ipc = "once" =>
        /\ \A k \in Keys :
              IF Declaring(k) # {}
              THEN \E n \in Declaring(k) : store.defaults[k] = Fields[n].default
              ELSE store.defaults[k] = pre.defaults[k]
        /\ store.config = pre.config
        /\ store.env = pre.env
        /\ out = NoOut

C10_Witness ==
    /\ ipc = "once"
    /\ Len(Fields) = 2
    /\ HasDefault(Fields[1]) /\ ~HasKey(Fields[1])
    /\ HasDefault(Fields[2]) /\ Fields[2].mapstructure = Some("K2")
    /\ store.defaults["K2"] = Fields[2].default
    /\ store.defaults["K1"] = pre.defaults["K1"]
    /\ pre.defaults["K1"] = Some("p")

\* C11 as stated: an input that is not a pointer to a struct (a struct passed by
\* value, a pointer to a non-struct, a nil pointer, a scalar) is a no-op: the
\* injection registers no default and leaves the store as it was.
C11_NoOpUnlessStructPtr ==
    (ipc \in {"once", "twice"} /\ ~IsStructPtr(structPtr)) =>
        (store = pre /\ out = NoOut)

\* C11, amended: an input whose value, once a pointer is followed, is not a
\* struct (a pointer to a non-struct, a nil pointer, a scalar) is a no-op: the
\* injection registers no default, leaves the store as it was and produces no
\* error. A struct passed by value is not such an input: its declared defaults
\* are registered as those of a pointer to it are, and only the defaults of the
\* store change.
C11_NoOpUnlessStruct ==
    ipc \in {"once", "twice"} =>
        /\ structPtr.kind # "struct" => (store = pre /\ out = NoOut)
        /\ (structPtr.kind = "struct" /\ ~structPtr.ptr) =>
              /\ store = loadStructDefaults(pre, PtrTo("struct", structPtr.fields))
              /\ \A k \in Keys :
                    IF Declaring(k) # {}
                    THEN store.defaults[k] = Fields[Last(Declaring(k))].default
                    ELSE store.defaults[k] = pre.defaults[k]
              /\ store.config = pre.config
              /\ store.env = pre.env
              /\ out = NoOut

C11_Witness ==
    /\ ipc = "once"
    /\ ~structPtr.ptr
    /\ structPtr.kind = "struct"
    /\ Declaring("K2") = {1}
    /\ ~pre.defaults["K2"].ok
    /\ store.defaults["K2"] = Fields[1].default
    /\ store # pre

====
